---- MODULE Spec2Model ----
(***************************************************************************)
(* FlowSight offline-first report pipeline.                                *)
(*                                                                         *)
(*   agent      apps/agent/src-tauri/src/agent.rs : the durable queue      *)
(*              (table activity_reports), capture_and_analyze and          *)
(*              sync_reports                                               *)
(*   collector  apps/pm/src-tauri/src/pm.rs : run_http_server, the tables  *)
(*              developers and reports, get_stats, clear_old_reports       *)
(*                                                                         *)
(* Absent Option values are the string "none" (texts) or 0 (row ids).      *)
(* Timestamps are whole seconds of one clock, `now`.                       *)
(***************************************************************************)
EXTENDS Integers, Sequences, FiniteSets, TLC

None == "none"

(***************************************************************************)
(* Bounds of the model.                                                    *)
(***************************************************************************)
MaxObs == 3        \* capture_and_analyze calls of the agent
MaxQueue == 2      \* requests waiting at the collector's listener
MaxReports == 3    \* rows ever inserted into reports, agent and collector together
MaxPushes == 2     \* rows ever inserted into reports, collector alone
MaxTime == 1       \* seconds the clock advances
DayLen == 2        \* seconds in the model's day (86400 in the program)
MaxRows == 52      \* rows of activity_reports in the long queue
MaxClock == 15     \* the latest second of a purge of stored reports
MaxKeys == 3       \* keys generate_key hands out

(***************************************************************************)
(* Program constants.                                                      *)
(***************************************************************************)
UnsyncedLimit == 50          \* LIMIT 50 of get_unsynced_reports
DefaultRetentionDays == 7    \* PmConfig.retention_days in PmDashboard::new
DefaultPort == 8080          \* PmConfig.server_port in PmDashboard::new

PmUrl == "pm"          \* a pm_dashboard_url that reaches this collector
OtherUrl == "other"    \* any other endpoint (the default, localhost:3000)

VARIABLES
    \* ------------------------------------------------------------ agent
    agent,              \* FlowSightAgent: is_registered and its config
    activity_reports,   \* table activity_reports: rows [id, description, synced]
    agent_seq,          \* AUTOINCREMENT counter of activity_reports
    cap,                \* the capture_and_analyze handler in progress
    sync,               \* the sync_reports handler in progress
    acked,              \* history: ids whose push the agent saw answered 2xx
    stored,             \* history: the ids the other endpoint answered 2xx,
                        \* in the order of their first such answer
    dups,               \* history: the ids the other endpoint answered 2xx
                        \* more than once
    \* -------------------------------------------------------- collector
    pm,                 \* PmDashboard: config.api_key, server_running
    developers,         \* table developers: rows [id, name, device_id, is_online, last_seen_at]
    reports,            \* table reports: rows [id, developer_id, description, created_at]
    report_seq,         \* AUTOINCREMENT counter of reports
    srv,                \* the thread running run_http_server
    incoming,           \* server.incoming_requests(): requests not yet taken
    last_resp,          \* the response the server wrote last
    stats,              \* the get_stats command in progress
    purged,             \* the last clear_old_reports call and its result
    overlap,            \* history: developer ids of report pushes that were
                        \* in flight together with a push of another id
    now,                \* the clock, in seconds
    config,             \* table config of the collector: api_key, server_port
    side_loops,         \* threads of run_http_server that serve a port no
                        \* client of the model addresses
    key_seq,            \* the number of keys generate_key has handed out
    tz                  \* the collector host's local time minus UTC, in seconds

agent_vars == <<agent, activity_reports, agent_seq, cap, sync, acked, stored, dups>>
pm_vars == <<pm, developers, reports, report_seq, srv, incoming, last_resp,
             stats, purged, overlap, now, config, side_loops, key_seq, tz>>
vars == <<agent, activity_reports, agent_seq, cap, sync, acked, stored, dups,
          pm, developers, reports, report_seq, srv, incoming, last_resp,
          stats, purged, overlap, now, config, side_loops, key_seq, tz>>

(***************************************************************************)
(* Sequences and sorting.                                                  *)
(***************************************************************************)
Min(S) == CHOOSE x \in S : \A y \in S : x <= y

RECURSIVE SortById(_)
\* ORDER BY id: the rows of a set, ascending by id (ids are unique).
SortById(rows) ==
    IF rows = {} THEN <<>>
    ELSE LET m == Min({r.id : r \in rows})
             first == CHOOSE r \in rows : r.id = m
         IN <<first>> \o SortById(rows \ {first})

Take(s, n) == IF Len(s) <= n THEN s ELSE SubSeq(s, 1, n)

(***************************************************************************)
(* Agent: the durable queue (agent.rs, impl FlowSightAgent).               *)
(* dbOk says whether Connection::open and the statement succeed.           *)
(***************************************************************************)

\* save_report: INSERT INTO activity_reports ...; Ok(last_insert_rowid()).
save_report(table, seq, description, synced, dbOk) ==
    IF dbOk
    THEN [ok |-> TRUE, id |-> seq + 1, seq |-> seq + 1,
          table |-> table \cup {[id |-> seq + 1, description |-> description,
                                 synced |-> synced]}]
    ELSE [ok |-> FALSE, id |-> 0, seq |-> seq, table |-> table]

\* UPDATE ... SET synced = 1 - synced: flips the flag instead of setting it.
mark_report_synced_toggle(table, id, dbOk) ==
    IF dbOk
    THEN [ok |-> TRUE,
          table |-> {IF r.id = id THEN [r EXCEPT !.synced = ~r.synced] ELSE r
                     : r \in table}]
    ELSE [ok |-> FALSE, table |-> table]

\* DELETE FROM activity_reports WHERE id = ?: the delivered row is dropped.
mark_report_synced_delete(table, id, dbOk) ==
    IF dbOk
    THEN [ok |-> TRUE, table |-> {r \in table : r.id /= id}]
    ELSE [ok |-> FALSE, table |-> table]

\* mark_report_synced: UPDATE activity_reports SET synced = 1 WHERE id = ?
\* (an id that matches no row updates nothing and is still Ok).
mark_report_synced(table, id, dbOk) ==
    IF dbOk
    THEN [ok |-> TRUE,
          table |-> {IF r.id = id THEN [r EXCEPT !.synced = TRUE] ELSE r
                     : r \in table}]
    ELSE [ok |-> FALSE, table |-> table]

\* The same query without WHERE synced = 0.
get_unsynced_reports_all(table, dbOk) ==
    IF dbOk THEN Take(SortById(table), UnsyncedLimit) ELSE <<>>

\* The same query without LIMIT 50.
get_unsynced_reports_unlimited(table, dbOk) ==
    IF dbOk THEN SortById({r \in table : ~r.synced}) ELSE <<>>

\* get_unsynced_reports: SELECT ... WHERE synced = 0 ORDER BY id LIMIT 50;
\* an empty list when the store cannot be opened.
get_unsynced_reports(table, dbOk) ==
    IF dbOk
    THEN Take(SortById({r \in table : ~r.synced}), UnsyncedLimit)
    ELSE <<>>

(***************************************************************************)
(* The wire.  A request is what the collector's loop reads of it: method,  *)
(* url, the X-API-Key header and the JSON body.  Of the body only the keys *)
(* of ReportRequest count (serde ignores unknown keys): json says whether  *)
(* the first MiB of the text is a JSON document, and over what follows the *)
(* first MiB: nothing, "rest" (the rest of a document that is longer) or   *)
(* "junk" (bytes after a document that, with its trailing white space,     *)
(* fills the first MiB exactly; they make the whole text no JSON).         *)
(* `from` names the agent handler waiting for the answer ("peer": some     *)
(* other client) and `obs` the row id it pushes.                           *)
(***************************************************************************)
EmptyBody == [json |-> FALSE, developer_id |-> None, developer_name |-> None,
              device_id |-> None, description |-> 0, activity_type |-> None,
              over |-> None]

\* send_report_to_dashboard: POST {pm_url}/api/reports with the JSON keys
\* apiKey, developerId, description, activityType, appName, windowTitle and
\* no X-API-Key header.
send_report_to_dashboard_request(report, handler) ==
    [method |-> "POST", url |-> "/api/reports", key |-> None,
     body |-> [json |-> TRUE, developer_id |-> None, developer_name |-> None,
               device_id |-> None, description |-> report.description,
               activity_type |-> None, over |-> None],
     from |-> handler, obs |-> report.id]

\* response.status().is_success()
is_success(status) == status >= 200 /\ status < 300

(***************************************************************************)
(* Collector: routing and authentication (pm.rs, run_http_server).         *)
(***************************************************************************)
Methods == {"GET", "POST", "OPTIONS"}
Urls == {"/health", "/api/report", "/api/developers", "/api/stats",
         "/api/reports", "/api/health"}

\* url.contains("/health"), over Urls.
url_contains_health(url) == url \in {"/health", "/api/health"}

\* A loop without the key check.
authorized_no_check(req_api_key, api_key, url) == TRUE

\* Line 224 negated: the request goes on to the routes when its X-API-Key
\* equals the key the thread was started with, or its url contains "/health".
authorized(req_api_key, api_key, url) ==
    ~(req_api_key /= api_key /\ ~url_contains_health(url))

\* The match on (method, url) of lines 234-253.
route(method, url) ==
    CASE method = "GET" /\ url = "/health" -> "health"
      [] method = "POST" /\ url = "/api/report" -> "report"
      [] method = "GET" /\ url = "/api/developers" -> "developers"
      [] method = "GET" /\ url = "/api/stats" -> "stats"
      [] OTHER -> "not_found"

(***************************************************************************)
(* Collector: handle_report, statement by statement.                       *)
(***************************************************************************)
\* serde_json::from_str::<ReportRequest>: description and activity_type are
\* required, the three Options may be absent.
\* request.as_reader().take(1024 * 1024), lines 239-243: the handler gets the
\* first MiB of the body, whatever follows it.
read_body(body) == [body EXCEPT !.over = None]

parse_report_ok(body) ==
    body.json /\ body.description /= 0 /\ body.activity_type /= None

\* dev_id of lines 286-288 and dev_name of line 289.
report_dev_id(body) ==
    IF body.developer_id /= None THEN body.developer_id
    ELSE IF body.device_id /= None THEN body.device_id
    ELSE "unknown"

report_dev_name(body) ==
    IF body.developer_name /= None THEN body.developer_name ELSE "Unknown"

\* INSERT OR REPLACE: the rows that hold the id or the device_id go.
upsert_developer_replace(devs, dev_id, dev_name, device_id, t) ==
    {d \in devs : d.id /= dev_id /\ (device_id = None \/ d.device_id /= device_id)}
    \cup {[id |-> dev_id, name |-> dev_name, device_id |-> device_id,
           is_online |-> TRUE, last_seen_at |-> t]}

\* ON CONFLICT(id) DO NOTHING: a known id is not refreshed.
upsert_developer_do_nothing(devs, dev_id, dev_name, device_id, t) ==
    IF \E d \in devs : d.id = dev_id
    THEN devs
    ELSE IF device_id /= None /\ \E d \in devs : d.device_id = device_id
    THEN devs
    ELSE devs \cup {[id |-> dev_id, name |-> dev_name, device_id |-> device_id,
                     is_online |-> TRUE, last_seen_at |-> t]}

\* INSERT INTO developers ... ON CONFLICT(id) DO UPDATE SET name, is_online,
\* last_seen_at.  A new id whose device_id another row holds violates
\* UNIQUE(device_id): the statement fails and the table is unchanged (the
\* caller drops the result).  NULL device ids never collide.
upsert_developer(devs, dev_id, dev_name, device_id, t) ==
    IF \E d \in devs : d.id = dev_id
    THEN {IF d.id = dev_id
          THEN [d EXCEPT !.name = dev_name, !.is_online = TRUE, !.last_seen_at = t]
          ELSE d : d \in devs}
    ELSE IF device_id /= None /\ \E d \in devs : d.device_id = device_id
    THEN devs
    ELSE devs \cup {[id |-> dev_id, name |-> dev_name, device_id |-> device_id,
                     is_online |-> TRUE, last_seen_at |-> t]}

\* INSERT OR REPLACE with the developer as the key: the developer's earlier
\* reports go.
insert_report_replace(reps, seq, dev_id, description, t) ==
    [id |-> seq + 1, seq |-> seq + 1,
     table |-> {r \in reps : r.developer_id /= dev_id}
               \cup {[id |-> seq + 1, developer_id |-> dev_id,
                      description |-> description, created_at |-> t]}]

\* INSERT INTO reports (developer_id, description, activity_type); the id is
\* AUTOINCREMENT, created_at is CURRENT_TIMESTAMP.
\* id INTEGER PRIMARY KEY without AUTOINCREMENT: the new rowid is one more
\* than the largest in the table.
insert_report_max_rowid(reps, seq, dev_id, description, t) ==
    LET id == IF reps = {} THEN 1
              ELSE 1 + CHOOSE m \in {r.id : r \in reps} :
                           \A r \in reps : r.id <= m
    IN [id |-> id, seq |-> seq + 1,
        table |-> reps \cup {[id |-> id, developer_id |-> dev_id,
                              description |-> description, created_at |-> t]}]

insert_report(reps, seq, dev_id, description, t) ==
    [id |-> seq + 1, seq |-> seq + 1,
     table |-> reps \cup {[id |-> seq + 1, developer_id |-> dev_id,
                           description |-> description, created_at |-> t]}]

(***************************************************************************)
(* Collector: get_stats_json, statement by statement.  pc counts the       *)
(* queries done; 4 is a finished call.  seen is history: the counts the    *)
(* tables had at each instant since the call began.                        *)
(***************************************************************************)
TableCounts(devs, reps) ==
    <<Cardinality(devs), Cardinality({d \in devs : d.is_online}), Cardinality(reps)>>

DayOf(t) == t \div DayLen

\* The date part of CURRENT_TIMESTAMP, which is UTC.
utc_date(t) == DayOf(t)

\* Local::now().format("%Y-%m-%d"): the date on the host's local clock.
local_date(t) == DayOf(t + tz)

NoStats == [pc |-> 0, total_developers |-> 0, online_developers |-> 0,
            total_reports |-> 0, reports_today |-> 0, seen |-> {}]

\* One query of lines 348-356 against the tables as they are now.
get_stats_json_step(st, devs, reps, t) ==
    CASE st.pc = 0 -> [st EXCEPT !.pc = 1, !.total_developers = Cardinality(devs)]
      [] st.pc = 1 -> [st EXCEPT !.pc = 2,
                        !.online_developers = Cardinality({d \in devs : d.is_online})]
      [] st.pc = 2 -> [st EXCEPT !.pc = 3, !.total_reports = Cardinality(reps)]
      [] st.pc = 3 -> [st EXCEPT !.pc = 4,
                        !.reports_today =
                            Cardinality({r \in reps :
                                utc_date(r.created_at) = local_date(t)})]
      [] OTHER -> st

StatsResult(st) == <<st.total_developers, st.online_developers, st.total_reports>>

\* History: a call in progress has seen the tables of every instant.
Observe(st, devs, reps) ==
    IF st.pc \in 1..3 THEN [st EXCEPT !.seen = @ \cup {TableCounts(devs, reps)}]
    ELSE st

(***************************************************************************)
(* Collector: clear_old_reports.                                           *)
(***************************************************************************)
\* The same DELETE with <= in place of <.
clear_old_reports_inclusive(reps, days, t) ==
    {r \in reps : ~(r.created_at <= t - days * DayLen)}

\* The same DELETE with datetime('now'), without the days modifier.
clear_old_reports_ignore_days(reps, days, t) ==
    {r \in reps : ~(r.created_at < t)}

\* DELETE FROM reports WHERE created_at < datetime('now', '-{days} days').
\* (For a days so large that datetime() yields NULL no row compares below
\* it either.)
clear_old_reports_delete(reps, days, t) ==
    {r \in reps : ~(r.created_at < t - days * DayLen)}

(***************************************************************************)
(* Initial state: both applications constructed (FlowSightAgent::new,      *)
(* PmDashboard::new) on empty stores, the agent with one of the            *)
(* configurations its config table can hold, the server not started.       *)
(***************************************************************************)
AgentConfig(is_registered, api_key, developer_id, pm_dashboard_url) ==
    [is_registered |-> is_registered, api_key |-> api_key,
     developer_id |-> developer_id, pm_dashboard_url |-> pm_dashboard_url,
     reports_sent |-> 0]

Unconfigured == AgentConfig(FALSE, None, None, OtherUrl)

\* Configurations whose pushes go to an endpoint other than this collector.
AgentConfigs ==
    { AgentConfig(TRUE, "K1", "d1", OtherUrl),
      AgentConfig(TRUE, None, "d1", OtherUrl),
      AgentConfig(TRUE, "K1", None, OtherUrl),
      AgentConfig(TRUE, "K1", "d1", None),
      Unconfigured }

\* The valid configuration whose pushes go to this collector.
E2EConfigs == { AgentConfig(TRUE, "K1", "d1", PmUrl) }

\* out and id of an idle handler are what its last call returned: Ok(report)
\* with report.id (0 is None).
CapIdle == [pc |-> "idle", id |-> 0, description |-> 0, res |-> 0, out |-> None]
\* answered, read and pushed are history: the pushes of this call that got an
\* HTTP answer, whether the call ran get_unsynced_reports, and the ids it
\* pushed, in order.
SyncIdle == [pc |-> "idle", unsynced |-> <<>>, i |-> 0, synced_count |-> 0,
             failed_count |-> 0, res |-> 0, out |-> None, answered |-> 0,
             read |-> FALSE, pushed |-> <<>>]
NoReq == [method |-> None, url |-> None, key |-> None, body |-> EmptyBody,
          from |-> None, obs |-> 0]
\* port, api_key and flag are the arguments the thread was spawned with;
\* flag is its Arc of server_running: "shared" with the PmDashboard in
\* PmState, or, once initialize_pm has replaced that, the value it was left
\* with ("true", "false").
SrvIdle == [pc |-> "idle", api_key |-> None, req |-> NoReq, st |-> NoStats,
            port |-> 0, flag |-> "shared"]
\* cors says whether the response carries the Access-Control-Allow headers.
NoResp == [status |-> 0, body |-> None, id |-> 0, st |-> NoStats, cors |-> FALSE]
\* What the client of a request gets that the loop drops without respond():
\* nothing, or the bare 500 that the HTTP library writes for a request
\* dropped unanswered.
Dropped == [NoResp EXCEPT !.body = "dropped"]
DroppedWith500 == [NoResp EXCEPT !.body = "dropped", !.status = 500]

\* generate_key: "fsk_" and the clock's milliseconds in hex; the n-th call
\* gets the n-th key (the clock has moved on between two calls).
KeyNames == <<"K1", "K2", "K3", "K4", "K5">>
generate_key(n) == KeyNames[n]

\* The empty config table (server_port 0: no row).
NoConfig == [api_key |-> None, server_port |-> 0]

\* PmDashboard::new with the first key, before load_config.
NewPm == [api_key |-> generate_key(1), server_running |-> FALSE,
          retention_days |-> DefaultRetentionDays,
          server_port |-> DefaultPort,
          start_out |-> None, bind |-> None]

\* seq is history: the highest report id assigned when the purge ran.
NoPurge == [days |-> 0, deleted |-> 0, seq |-> 0]

InitCollector ==
    /\ pm = NewPm
    /\ config = NoConfig /\ side_loops = {} /\ key_seq = 1 /\ tz = 0
    /\ developers = {} /\ reports = {} /\ report_seq = 0
    /\ srv = SrvIdle /\ incoming = <<>> /\ last_resp = NoResp
    /\ stats = NoStats /\ purged = NoPurge
    /\ overlap = {}
    /\ now = 0

InitAgent(configs) ==
    /\ agent \in configs
    /\ activity_reports = {} /\ agent_seq = 0
    /\ cap = CapIdle /\ sync = SyncIdle /\ acked = {} /\ stored = <<>>
    /\ dups = {}

Init == InitAgent(AgentConfigs) /\ InitCollector

(***************************************************************************)
(* Agent: one push.  reqwest's blocking send either reaches the endpoint   *)
(* or fails at once (connection refused when nothing listens).  res is the *)
(* handler's view of its push: 0 waiting, -1 Err, else the status.         *)
(***************************************************************************)
Listening == srv.pc /= "idle"

\* pm_dashboard_url.unwrap_or_else(|| "http://localhost:3000") of lines 577
\* and 615: the default is not this collector, which listens on port 8080.
pm_url == IF agent.pm_dashboard_url = None THEN OtherUrl ELSE agent.pm_dashboard_url

CanSend == (pm_url = PmUrl /\ Listening) => Len(incoming) < MaxQueue

SendIncoming(req) ==
    IF pm_url = PmUrl /\ Listening THEN Append(incoming, req)
    ELSE incoming

SendRes == IF pm_url = PmUrl /\ ~Listening THEN -1 ELSE 0

\* The order in which the other endpoint first answers 2xx to the push of
\* each row: the order in which it creates their first reports (id 0 is a
\* push of a report whose save failed, of no row).
first_stored(order, id, status) ==
    IF status /= -1 /\ is_success(status) /\ id /= 0
       /\ id \notin {order[k] : k \in 1..Len(order)}
    THEN Append(order, id) ELSE order

\* The rows of which the other endpoint has created a second report: it
\* answers 2xx to a push of a row it answered 2xx before.
stored_again(again, order, id, status) ==
    IF status /= -1 /\ is_success(status)
       /\ id \in {order[k] : k \in 1..Len(order)}
    THEN again \cup {id} ELSE again

\* An endpoint that is not this collector answers a waiting push with any
\* status, or the push fails in transport.
OtherRespond(h, status) ==
    /\ pm_url = OtherUrl
    /\ \/ /\ h = "capture" /\ cap.pc = "wait" /\ cap.res = 0
          /\ cap' = [cap EXCEPT !.res = status]
          /\ stored' = first_stored(stored, cap.id, status)
          /\ dups' = stored_again(dups, stored, cap.id, status)
          /\ UNCHANGED sync
       \/ /\ h = "sync" /\ sync.pc = "wait" /\ sync.res = 0
          /\ sync' = [sync EXCEPT !.res = status]
          /\ stored' = first_stored(stored, sync.unsynced[sync.i].id, status)
          /\ dups' = stored_again(dups, stored, sync.unsynced[sync.i].id, status)
          /\ UNCHANGED cap
    /\ UNCHANGED <<agent, activity_reports, agent_seq, acked>>
    /\ UNCHANGED pm_vars

(***************************************************************************)
(* Agent: capture_and_analyze (lines 606-679), one action per locked       *)
(* section or push.  A failed screen capture or vision call returns before *)
(* any state changes and is no step.                                       *)
(***************************************************************************)
\* Steps 4-5: build the report and save it; a failed save leaves id None.
CaptureSave(dbOk) ==
    /\ cap.pc = "idle"
    /\ agent.reports_sent < MaxObs
    /\ LET r == save_report(activity_reports, agent_seq, agent.reports_sent + 1,
                            FALSE, dbOk)
       IN /\ activity_reports' = r.table
          /\ agent_seq' = r.seq
          /\ cap' = [pc |-> "saved", id |-> r.id,
                     description |-> agent.reports_sent + 1, res |-> 0,
                     out |-> None]
    /\ UNCHANGED <<agent, sync, acked, stored, dups>>
    /\ UNCHANGED pm_vars

\* Step 6, the send, when registered with both credentials; otherwise
\* step 7 at once.
CaptureSend ==
    /\ cap.pc = "saved"
    /\ IF agent.is_registered /\ agent.api_key /= None /\ agent.developer_id /= None
       THEN /\ CanSend
            /\ incoming' = SendIncoming(send_report_to_dashboard_request(
                                [id |-> cap.id, description |-> cap.description],
                                "capture"))
            /\ cap' = [cap EXCEPT !.pc = "wait", !.res = SendRes]
            /\ UNCHANGED agent
       ELSE /\ agent' = [agent EXCEPT !.reports_sent = @ + 1]
            /\ cap' = [CapIdle EXCEPT !.out = "ok", !.id = cap.id]
            /\ UNCHANGED incoming
    /\ UNCHANGED <<activity_reports, agent_seq, sync, acked, stored, dups>>
    /\ UNCHANGED <<pm, developers, reports, report_seq, srv, last_resp, stats,
                   purged, overlap, now, config, side_loops, key_seq, tz>>

\* Line 657: send_report_to_dashboard(..).is_ok(), true of every answer.
capture_marks_synced(res) == res /= -1

\* Step 6 after the push returned, and step 7.
CaptureRecv(dbOk) ==
    /\ cap.pc = "wait" /\ cap.res /= 0
    /\ activity_reports' =
          IF capture_marks_synced(cap.res) /\ cap.id /= 0
          THEN mark_report_synced(activity_reports, cap.id, dbOk).table
          ELSE activity_reports
    /\ acked' = IF cap.res /= -1 /\ is_success(cap.res) /\ cap.id /= 0
                THEN acked \cup {cap.id} ELSE acked
    /\ agent' = [agent EXCEPT !.reports_sent = @ + 1]
    /\ cap' = [CapIdle EXCEPT !.out = "ok", !.id = cap.id]
    /\ UNCHANGED <<agent_seq, sync, stored, dups>>
    /\ UNCHANGED pm_vars

(***************************************************************************)
(* Agent: sync_reports (lines 557-602).                                    *)
(***************************************************************************)
\* Lines 558-577: under the lock, the check of is_registered and then the
\* read of the config and of the queue; after it the checks of the two
\* credentials.  An absent pm_dashboard_url is no error (pm_url).
SyncStart(dbOk) ==
    /\ sync.pc \in {"idle", "done"}
    /\ sync' =
         IF ~agent.is_registered
         THEN [SyncIdle EXCEPT !.pc = "done", !.out = "not_registered"]
         ELSE IF agent.api_key = None
         THEN [SyncIdle EXCEPT !.pc = "done", !.out = "api_key_not_set",
                               !.read = TRUE]
         ELSE IF agent.developer_id = None
         THEN [SyncIdle EXCEPT !.pc = "done", !.out = "developer_id_not_set",
                               !.read = TRUE]
         ELSE [SyncIdle EXCEPT !.pc = "loop", !.i = 1, !.read = TRUE,
                 !.unsynced = get_unsynced_reports(activity_reports, dbOk)]
    /\ UNCHANGED <<agent, activity_reports, agent_seq, cap, acked, stored, dups>>
    /\ UNCHANGED pm_vars

\* Line 584: the push of the next report of the list.
SyncSend ==
    /\ sync.pc = "loop" /\ sync.i <= Len(sync.unsynced)
    /\ CanSend
    /\ incoming' = SendIncoming(send_report_to_dashboard_request(
                                    sync.unsynced[sync.i], "sync"))
    /\ sync' = [sync EXCEPT !.pc = "wait", !.res = SendRes,
                            !.pushed = Append(@, sync.unsynced[sync.i].id)]
    /\ UNCHANGED <<agent, activity_reports, agent_seq, cap, acked, stored, dups>>
    /\ UNCHANGED <<pm, developers, reports, report_seq, srv, last_resp, stats,
                   purged, overlap, now, config, side_loops, key_seq, tz>>

\* is_ok() in place of Ok(true): every answer counts.
sync_marks_synced_any_answer(res) == res /= -1

\* Line 585: Ok(true), a 2xx answer.
sync_marks_synced(res) == res /= -1 /\ is_success(res)

\* Lines 585-593: mark and count.
SyncRecv(dbOk) ==
    /\ sync.pc = "wait" /\ sync.res /= 0
    /\ LET id == sync.unsynced[sync.i].id
       IN IF sync_marks_synced(sync.res)
          THEN /\ activity_reports' = mark_report_synced(activity_reports, id, dbOk).table
               /\ acked' = acked \cup {id}
               /\ sync' = [sync EXCEPT !.pc = "loop", !.i = @ + 1, !.res = 0,
                                       !.synced_count = @ + 1,
                                       !.answered = @ + 1]
          ELSE /\ sync' = [sync EXCEPT !.pc = "loop", !.i = @ + 1, !.res = 0,
                                       !.failed_count = @ + 1,
                                       !.answered = IF sync.res = -1 THEN @ ELSE @ + 1]
               /\ UNCHANGED <<activity_reports, acked>>
    /\ UNCHANGED <<agent, agent_seq, cap, stored, dups>>
    /\ UNCHANGED pm_vars

\* Lines 597-601: the counts go back to the caller.
SyncReturn ==
    /\ sync.pc = "loop" /\ sync.i > Len(sync.unsynced)
    /\ sync' = [sync EXCEPT !.pc = "done", !.out = "ok"]
    /\ UNCHANGED <<agent, activity_reports, agent_seq, cap, acked, stored, dups>>
    /\ UNCHANGED pm_vars

(***************************************************************************)
(* Collector: the commands start_server and stop_server.  Every command    *)
(* holds the PmState lock for its whole body, so none runs while get_stats *)
(* is between two of its queries.                                          *)
(***************************************************************************)
PmLockFree == stats.pc \notin 1..3

\* The loop's view of the flag (line 194).
loop_running ==
    IF srv.flag = "shared" THEN pm.server_running ELSE srv.flag = "true"

\* The ports held by threads of earlier starts.
HeldPorts ==
    (IF srv.pc /= "idle" THEN {srv.port} ELSE {})
    \cup {l.port : l \in side_loops}

\* Lines 453-475, when the flag is false.  The new thread binds
\* config.server_port unless a thread of an earlier start still holds it, or
\* portFree is false (another process holds it): then Server::http fails,
\* the new thread returns (lines 182-188), and an old loop goes on with the
\* key it was started with.  start_out is what the command returned and
\* bind what Server::http of its thread got; both are history, reset by
\* stop_server.
start_server(portFree) ==
    /\ PmLockFree
    /\ ~pm.server_running
    /\ pm.server_port \in HeldPorts => portFree
    /\ LET bound == pm.server_port \notin HeldPorts /\ portFree
           loop == [SrvIdle EXCEPT !.pc = "listening", !.api_key = pm.api_key,
                                   !.port = pm.server_port]
       IN /\ pm' = [pm EXCEPT !.server_running = TRUE, !.start_out = "started",
                              !.bind = IF bound THEN "ok" ELSE "failed"]
          /\ srv' = IF bound /\ pm.server_port = DefaultPort THEN loop ELSE srv
          /\ side_loops' =
                IF bound /\ pm.server_port /= DefaultPort
                THEN side_loops \cup {[port |-> loop.port, flag |-> loop.flag,
                                       api_key |-> loop.api_key]}
                ELSE side_loops
    /\ UNCHANGED <<developers, reports, report_seq, incoming, last_resp, stats,
                   purged, overlap, now, config, key_seq, tz>>
    /\ UNCHANGED agent_vars

\* Lines 478-486.
stop_server ==
    /\ PmLockFree
    /\ pm.server_running
    /\ pm' = [pm EXCEPT !.server_running = FALSE, !.start_out = None,
                        !.bind = None]
    /\ UNCHANGED <<developers, reports, report_seq, srv, incoming, last_resp,
                   stats, purged, overlap, now, config, side_loops, key_seq, tz>>
    /\ UNCHANGED agent_vars

\* The flag a thread is left with when initialize_pm replaces the
\* PmDashboard it shares the flag with.
orphaned(flag) ==
    IF flag = "shared" THEN (IF pm.server_running THEN "true" ELSE "false")
    ELSE flag

\* PmDashboard::new keeps the key it generates when the config table holds
\* none, and loads the stored one otherwise (lines 80-91, 125-143).
new_api_key(stored_key, fresh) == IF stored_key /= None THEN stored_key ELSE fresh

\* initialize_pm, lines 372-377: a new PmDashboard, with a new flag, takes
\* the place of the old one; the threads of the old one keep its flag.
initialize_pm ==
    /\ PmLockFree
    /\ config.api_key = None => key_seq < MaxKeys
    /\ pm' = [NewPm EXCEPT
                !.api_key = new_api_key(config.api_key, generate_key(key_seq + 1)),
                !.server_port = IF config.server_port /= 0
                                THEN config.server_port ELSE DefaultPort]
    /\ key_seq' = IF config.api_key = None THEN key_seq + 1 ELSE key_seq
    /\ srv' = IF srv.pc /= "idle" THEN [srv EXCEPT !.flag = orphaned(@)] ELSE srv
    /\ side_loops' = {[l EXCEPT !.flag = orphaned(@)] : l \in side_loops}
    /\ UNCHANGED <<developers, reports, report_seq, incoming, last_resp, stats,
                   purged, overlap, now, config, tz>>
    /\ UNCHANGED agent_vars

\* The ports an operator sets.
Ports == {DefaultPort, DefaultPort + 1}

\* update_config, lines 386-396, called with the current config and another
\* server_port: save_config writes api_key and server_port.
update_config(port) ==
    /\ PmLockFree
    /\ port /= pm.server_port
    /\ pm' = [pm EXCEPT !.server_port = port]
    /\ config' = [api_key |-> pm.api_key, server_port |-> port]
    /\ UNCHANGED <<developers, reports, report_seq, srv, incoming, last_resp,
                   stats, purged, overlap, now, side_loops, key_seq, tz>>
    /\ UNCHANGED agent_vars

\* generate_api_key, lines 503-514: the new key goes to the config in memory
\* and to the config table; no running thread is told.
generate_api_key ==
    /\ PmLockFree
    /\ key_seq < MaxKeys
    /\ pm' = [pm EXCEPT !.api_key = generate_key(key_seq + 1)]
    /\ key_seq' = key_seq + 1
    /\ config' = [api_key |-> generate_key(key_seq + 1),
                  server_port |-> pm.server_port]
    /\ UNCHANGED <<developers, reports, report_seq, srv, incoming, last_resp,
                   stats, purged, overlap, now, side_loops, tz>>
    /\ UNCHANGED agent_vars

(***************************************************************************)
(* Collector: the serving loop of run_http_server (lines 192-261).         *)
(***************************************************************************)
\* The report pushes in flight that the loop will accept: those waiting at
\* the listener and the one being handled.
will_accept(req, api_key) ==
    /\ req.method /= "OPTIONS"
    /\ authorized(req.key, api_key, req.url)
    /\ route(req.method, req.url) = "report"
    /\ parse_report_ok(read_body(req.body))

InFlightIds ==
    {report_dev_id(incoming[i].body) :
        i \in {j \in 1..Len(incoming) : will_accept(incoming[j], srv.api_key)}}
    \cup (IF srv.pc = "report_insert" THEN {report_dev_id(srv.req.body)} ELSE {})

\* A client other than the agent puts a request on the listener.
PeerSend(req) ==
    /\ Listening
    /\ Len(incoming) < MaxQueue
    /\ incoming' = Append(incoming, req)
    /\ overlap' =
          IF will_accept(req, srv.api_key)
             /\ InFlightIds \ {report_dev_id(req.body)} /= {}
          THEN overlap \cup InFlightIds \cup {report_dev_id(req.body)}
          ELSE overlap
    /\ UNCHANGED <<pm, developers, reports, report_seq, srv, last_resp, stats,
                   purged, now, config, side_loops, key_seq, tz>>
    /\ UNCHANGED agent_vars

\* request.respond(response): the answer goes to the waiting handler of the
\* agent when the request was its push; `lost` is an answer that the agent
\* does not get to see (connection reset).  res = -1 is reqwest's Err.
Deliver(req, status, lost) ==
    /\ cap' = IF req.from = "capture" /\ cap.pc = "wait" /\ cap.res = 0
              THEN [cap EXCEPT !.res = IF lost THEN -1 ELSE status]
              ELSE cap
    /\ sync' = IF req.from = "sync" /\ sync.pc = "wait" /\ sync.res = 0
               THEN [sync EXCEPT !.res = IF lost THEN -1 ELSE status]
               ELSE sync

Losses(req) == IF req.from \in {"capture", "sync"} THEN BOOLEAN ELSE {FALSE}

Respond(req, status, body, id, st) ==
    /\ last_resp' = [status |-> status, body |-> body, id |-> id, st |-> st,
                     cors |-> TRUE]
    /\ \E lost \in Losses(req) : Deliver(req, status, lost)

\* The answers that report a failure of the request.
ErrorBodies == {"invalid_api_key", "invalid_json", "db_error", "not_found"}

\* A loop that returns after a failed request.
after_respond_quit_on_error(body) ==
    IF body \in ErrorBodies THEN "idle" ELSE "listening"

\* After request.respond: `continue` (lines 216, 231) or the end of the
\* loop body (line 260); the thread goes back to incoming_requests().
after_respond(body) == "listening"

\* One request is taken off the listener and handled up to its first
\* statement against the store; the report and stats routes go on in
\* ServerStep.  limit bounds the rows of reports.
ServerTake(limit) ==
    /\ srv.pc = "listening"
    /\ incoming /= <<>>
    /\ incoming' = Tail(incoming)
    /\ LET req == Head(incoming)
       IN IF ~loop_running
          THEN \* lines 194-196: break; the request is dropped unanswered
               /\ srv' = SrvIdle
               /\ \E answered \in BOOLEAN :
                     /\ Deliver(req, 500, ~answered)
                     /\ last_resp' = IF answered THEN DroppedWith500 ELSE Dropped
               /\ UNCHANGED <<developers, stats>>
          ELSE IF req.method = "OPTIONS"
          THEN /\ Respond(req, 200, "empty", 0, NoStats)
               /\ srv' = [srv EXCEPT !.pc = after_respond("empty")]
               /\ UNCHANGED <<developers, stats>>
          ELSE IF ~authorized(req.key, srv.api_key, req.url)
          THEN /\ Respond(req, 401, "invalid_api_key", 0, NoStats)
               /\ srv' = [srv EXCEPT !.pc = after_respond("invalid_api_key")]
               /\ UNCHANGED <<developers, stats>>
          ELSE CASE route(req.method, req.url) = "health" ->
                    /\ Respond(req, 200, "ok", 0, NoStats)
                    /\ srv' = [srv EXCEPT !.pc = after_respond("ok")]
                    /\ UNCHANGED <<developers, stats>>
                 [] route(req.method, req.url) = "report" ->
                    IF ~parse_report_ok(read_body(req.body))
                    THEN /\ Respond(req, 200, "invalid_json", 0, NoStats)
                         /\ srv' = [srv EXCEPT !.pc = after_respond("invalid_json")]
                         /\ UNCHANGED <<developers, stats>>
                    ELSE /\ report_seq < limit
                         /\ developers' = upsert_developer(developers,
                                report_dev_id(req.body), report_dev_name(req.body),
                                req.body.device_id, now)
                         /\ stats' = Observe(stats, developers', reports)
                         /\ srv' = [srv EXCEPT !.pc = "report_insert", !.req = req]
                         /\ UNCHANGED <<last_resp, cap, sync>>
                 [] route(req.method, req.url) = "developers" ->
                    /\ Respond(req, 200, "developers", 0, NoStats)
                    /\ srv' = [srv EXCEPT !.pc = after_respond("developers")]
                    /\ UNCHANGED <<developers, stats>>
                 [] route(req.method, req.url) = "stats" ->
                    /\ srv' = [srv EXCEPT !.pc = "stats", !.req = req,
                                 !.st = get_stats_json_step(
                                     [NoStats EXCEPT !.seen = {TableCounts(developers, reports)}],
                                     developers, reports, now)]
                    /\ UNCHANGED <<developers, stats, last_resp, cap, sync>>
                 [] OTHER ->
                    /\ Respond(req, 200, "not_found", 0, NoStats)
                    /\ srv' = [srv EXCEPT !.pc = after_respond("not_found")]
                    /\ UNCHANGED <<developers, stats>>
    /\ UNCHANGED <<pm, reports, report_seq, purged, overlap, now, config, side_loops, key_seq, tz>>
    /\ UNCHANGED <<agent, activity_reports, agent_seq, acked, stored, dups>>

\* The next statement of the handler in progress, and the response after
\* its last one.  dbOk says whether the INSERT of handle_report succeeds.
ServerStep(dbOk) ==
    /\ srv.pc \in {"report_insert", "stats"}
    /\ srv.pc = "stats" => dbOk
    /\ IF srv.pc = "report_insert"
       THEN IF dbOk
            THEN LET r == insert_report(reports, report_seq,
                                        report_dev_id(srv.req.body),
                                        srv.req.body.description, now)
                 IN /\ reports' = r.table
                    /\ report_seq' = r.seq
                    /\ stats' = Observe(stats, developers, reports')
                    /\ Respond(srv.req, 200, "success", r.id, NoStats)
                    /\ srv' = [srv EXCEPT !.pc = after_respond("success"),
                                          !.req = NoReq]
            ELSE \* lines 300-312: the INSERT fails, Err(e) is the answer
                 /\ Respond(srv.req, 200, "db_error", 0, NoStats)
                 /\ srv' = [srv EXCEPT !.pc = after_respond("db_error"),
                                       !.req = NoReq]
                 /\ UNCHANGED <<reports, report_seq, stats>>
       ELSE LET st == get_stats_json_step(srv.st, developers, reports, now)
            IN /\ IF st.pc = 4
                  THEN /\ Respond(srv.req, 200, "stats", 0, st)
                       /\ srv' = [srv EXCEPT !.pc = "listening", !.req = NoReq,
                                             !.st = NoStats]
                  ELSE /\ srv' = [srv EXCEPT !.st = st]
                       /\ UNCHANGED <<last_resp, cap, sync>>
               /\ UNCHANGED <<reports, report_seq, stats>>
    /\ UNCHANGED <<pm, developers, incoming, purged, overlap, now, config, side_loops, key_seq, tz>>
    /\ UNCHANGED <<agent, activity_reports, agent_seq, acked, stored, dups>>

(***************************************************************************)
(* Collector: the commands get_stats and clear_old_reports.                *)
(***************************************************************************)
\* Lines 442-450: the lock is taken and the first query runs.
get_stats ==
    /\ stats.pc \in {0, 4}
    /\ stats' = get_stats_json_step(
                    [NoStats EXCEPT !.seen = {TableCounts(developers, reports)}],
                    developers, reports, now)
    /\ UNCHANGED <<pm, developers, reports, report_seq, srv, incoming, last_resp,
                   purged, overlap, now, config, side_loops, key_seq, tz>>
    /\ UNCHANGED agent_vars

\* The next query of the command; after the last one the result is returned.
get_stats_next ==
    /\ stats.pc \in 1..3
    /\ stats' = get_stats_json_step(stats, developers, reports, now)
    /\ UNCHANGED <<pm, developers, reports, report_seq, srv, incoming, last_resp,
                   purged, overlap, now, config, side_loops, key_seq, tz>>
    /\ UNCHANGED agent_vars

DaysArgs == {0, 1, 1000000}

\* Lines 517-532; days = -1 is None and takes config.retention_days.
clear_old_reports(days) ==
    /\ PmLockFree
    /\ LET d == IF days = -1 THEN pm.retention_days ELSE days
       IN /\ reports' = clear_old_reports_delete(reports, d, now)
          /\ purged' = [days |-> d,
                        deleted |-> Cardinality(reports) - Cardinality(reports'),
                        seq |-> report_seq]
    /\ srv' = [srv EXCEPT !.st = Observe(@, developers, reports')]
    /\ UNCHANGED <<pm, developers, report_seq, incoming, last_resp, stats,
                   overlap, now, config, side_loops, key_seq, tz>>
    /\ UNCHANGED agent_vars

\* The clock: one second passes.
Tick ==
    /\ now < MaxTime
    /\ now' = now + 1
    /\ UNCHANGED <<pm, developers, reports, report_seq, srv, incoming, last_resp,
                   stats, purged, overlap, config, side_loops, key_seq, tz>>
    /\ UNCHANGED agent_vars

(***************************************************************************)
(* Requests of clients other than the agent.                               *)
(***************************************************************************)
PeerReport(key, developer_id, developer_name, device_id) ==
    [method |-> "POST", url |-> "/api/report", key |-> key,
     body |-> [json |-> TRUE, developer_id |-> developer_id,
               developer_name |-> developer_name, device_id |-> device_id,
               description |-> 1, activity_type |-> "coding", over |-> None],
     from |-> "peer", obs |-> 0]

PeerPlain(method, url, key) ==
    [method |-> method, url |-> url, key |-> key, body |-> EmptyBody,
     from |-> "peer", obs |-> 0]

\* A peer that pushes for developer d2 with the right key.
E2EPeerRequests == {PeerReport("K1", "d2", "n2", None)}

\* Pushes and reads with a right, a wrong and no key, on the routes and
\* beside them.
PeerRequests ==
    {PeerReport("K1", "d1", "n1", "x"), PeerReport("K1", "d2", "n2", "x"),
     PeerReport("K1", "d2", "n2", "y"), PeerReport("K1", None, None, None),
     PeerReport("K2", "d1", "n1", "x"), PeerReport(None, "d2", "n2", "y"),
     PeerPlain("POST", "/api/report", "K1"),
     PeerPlain("GET", "/api/stats", "K2"),
     PeerPlain("GET", "/api/developers", None),
     PeerPlain("GET", "/health", None),
     PeerPlain("GET", "/api/health", None)}

\* A push and a read of the stats beside the commands of the collector.
OpsPeerRequests ==
    {PeerReport("K1", "d1", "n1", "x"), PeerPlain("GET", "/api/stats", "K1")}

(***************************************************************************)
(* Specifications.                                                         *)
(*   Spec     the agent alone, pushing to an endpoint that answers as it   *)
(*            likes                                                        *)
(*   SpecE2E  the configured agent pushing to this collector's server,     *)
(*            with one peer pushing beside it                              *)
(*   SpecPm   the collector's server under the requests of any client      *)
(*   SpecOps  the collector's commands get_stats and clear_old_reports     *)
(*            beside its server                                            *)
(* Further down:                                                           *)
(*   SpecQueue  sync_reports on a queue of about fifty rows                *)
(*   SpecPurge  clear_old_reports on a filled store                        *)
(*   SpecCtl    the operator's commands beside the server                  *)
(*   SpecStats  get_stats on hosts off UTC                                 *)
(***************************************************************************)
AgentNext ==
    \/ \E dbOk \in BOOLEAN : CaptureSave(dbOk)
    \/ CaptureSend
    \/ \E dbOk \in BOOLEAN : CaptureRecv(dbOk)
    \/ \E dbOk \in BOOLEAN : SyncStart(dbOk)
    \/ SyncSend
    \/ \E dbOk \in BOOLEAN : SyncRecv(dbOk)
    \/ SyncReturn

Next ==
    \/ AgentNext
    \/ \E h \in {"capture", "sync"}, status \in {200, 500, -1} : OtherRespond(h, status)

Spec == Init /\ [][Next]_vars

\* The agent whose sync_reports keeps being invoked (a timer), whose handlers
\* run their next statement, whose store keeps answering, and whose endpoint
\* keeps answering the pushes of sync_reports with success.
AgentFairness ==
    /\ SF_vars(SyncStart(TRUE)) /\ SF_vars(SyncSend)
    /\ SF_vars(SyncRecv(TRUE)) /\ SF_vars(SyncReturn)
    /\ SF_vars(SyncRecv(TRUE) /\ sync_marks_synced(sync.res))
    /\ SF_vars(CaptureSend) /\ SF_vars(CaptureRecv(TRUE))
    /\ SF_vars(OtherRespond("sync", 200))

SpecLive == Init /\ [][Next]_vars /\ AgentFairness

InitE2E == InitAgent(E2EConfigs) /\ InitCollector

NextE2E ==
    \/ AgentNext
    \/ start_server(TRUE)
    \/ stop_server
    \/ \E req \in E2EPeerRequests : PeerSend(req)
    \/ ServerTake(MaxReports)
    \/ ServerStep(TRUE)

SpecE2E == InitE2E /\ [][NextE2E]_vars

InitPm == InitAgent({Unconfigured}) /\ InitCollector

NextPm ==
    \/ \E portFree \in BOOLEAN : start_server(portFree)
    \/ stop_server
    \/ \E req \in PeerRequests : PeerSend(req)
    \/ ServerTake(MaxPushes)
    \/ ServerStep(TRUE)
    \/ Tick

SpecPm == InitPm /\ [][NextPm]_vars

NextOps ==
    \/ start_server(TRUE)
    \/ \E req \in OpsPeerRequests : PeerSend(req)
    \/ ServerTake(MaxPushes)
    \/ ServerStep(TRUE)
    \/ get_stats
    \/ get_stats_next
    \/ \E days \in DaysArgs \cup {-1} : clear_old_reports(days)
    \/ Tick

SpecOps == InitPm /\ [][NextOps]_vars

(***************************************************************************)
(* Properties.                                                             *)
(***************************************************************************)
Pending(table) == {r \in table : ~r.synced}

\* The loop takes a request off the listener while the flag is set.
TakeStep ==
    /\ srv.pc = "listening" /\ incoming /= <<>> /\ loop_running
    /\ incoming' = Tail(incoming)

\* The loop takes a report push that it will store and answer with success.
AcceptStep == TakeStep /\ will_accept(Head(incoming), srv.api_key)

RowsOf(devs, id) == {d \in devs : d.id = id}

\* C1: every observation that is delivered (synced) has had a push of it
\* answered with a success status before; no handler marks it after a
\* transport error or a non-success answer.
C1_DeliveredWasAcknowledged ==
    \A r \in activity_reports : r.synced => r.id \in acked

\* C2: after any enqueues and markDelivered calls, listPending is strictly
\* ascending by id and holds no delivered entry.
C2_ListPendingAscendingUndelivered ==
    \A dbOk \in BOOLEAN :
        LET l == get_unsynced_reports(activity_reports, dbOk)
        IN /\ \A i, j \in 1..Len(l) : i < j => l[i].id < l[j].id
           /\ \A i \in 1..Len(l) :
                 \A r \in activity_reports : r.id = l[i].id => ~r.synced

\* sync_reports has read, from a queue with a delivered entry, a list of two
\* or more pending entries that is still the list of the pending ones.
C2_Witness ==
    /\ sync.pc = "loop" /\ Len(sync.unsynced) >= 2
    /\ sync.unsynced = get_unsynced_reports(activity_reports, TRUE)
    /\ \E r \in activity_reports : r.synced

\* C3: markDelivered(id) twice leaves the queue as markDelivered(id) once,
\* and both calls succeed, for every queue and every id, also one that no
\* entry has (with the store reachable).
C3_MarkDeliveredIdempotent ==
    \A id \in 0..(agent_seq + 1) :
        LET once == mark_report_synced(activity_reports, id, TRUE)
            twice == mark_report_synced(once.table, id, TRUE)
        IN once.ok /\ twice.ok /\ twice.table = once.table

\* The queue holds a delivered and a pending entry (and agent_seq + 1 is an
\* id that no entry has).
C3_Witness ==
    /\ \E r \in activity_reports : r.synced
    /\ \E r \in activity_reports : ~r.synced

\* C4: a request on the report, developers or stats route whose key is not
\* the server's (wrong or absent) is answered 401 and touches no table.
C4_BadKeyRejectedBeforeStorage ==
    [][ (/\ TakeStep
         /\ Head(incoming).method /= "OPTIONS"
         /\ route(Head(incoming).method, Head(incoming).url)
               \in {"report", "developers", "stats"}
         /\ Head(incoming).key /= srv.api_key)
        => /\ last_resp'.status = 401
           /\ last_resp'.body = "invalid_api_key"
           /\ developers' = developers
           /\ reports' = reports
           /\ report_seq' = report_seq
           /\ srv'.pc = "listening" ]_vars

\* A request was refused with 401 while both tables held rows, and the
\* rows are all there.
C4_Witness ==
    /\ last_resp.status = 401
    /\ Cardinality(developers) >= 1
    /\ Cardinality(reports) = report_seq /\ report_seq >= 1

\* C5: every row of reports names, as developer_id, the id of a row of
\* developers (rows of developers are never deleted, so one that is there
\* right after the insert was created no later).
C5_ReportHasDeveloper ==
    \A r \in reports : \E d \in developers : d.id = r.developer_id

\* The device_id of the push is held by no row of another developer.
OwnDevice(body) ==
    \/ body.device_id = None
    \/ \A d \in developers :
          d.device_id = body.device_id => d.id = report_dev_id(body)

C7_SyncDeliversAllThree ==
    (/\ sync.pc = "done" /\ sync.out = "ok"
     /\ Len(sync.unsynced) = 3 /\ sync.answered = 3
     /\ \A d \in developers : d.id /= "d2"
     /\ \A r \in reports : r.developer_id /= "d2")
    => /\ sync.synced_count = 3 /\ sync.failed_count = 0
       /\ Pending(activity_reports) = {}
       /\ Cardinality(developers) = 1
       /\ Cardinality(reports) = 3
       /\ \A r1, r2 \in reports :
             r1.description < r2.description => r1.id < r2.id

C9_StatsOfOneInstant ==
    /\ stats.pc = 4 => StatsResult(stats) \in stats.seen
    /\ last_resp.body = "stats" => StatsResult(last_resp.st) \in last_resp.st.seen

\* C10 as claimed: clear_old_reports(0) deletes every report there is;
\* clear_old_reports of a huge number of days deletes none.
C10_PurgeZeroDeletesAll ==
    [][ /\ clear_old_reports(0) => reports' = {}
        /\ clear_old_reports(1000000) => reports' = reports ]_vars

\* C10 as amended: clear_old_reports(0) deletes exactly the reports stamped
\* before the second of the call, those of that second stay;
\* clear_old_reports of a huge number of days deletes none.
C10_PurgeZeroDeletesEarlier ==
    [][ /\ clear_old_reports(0)
              => /\ reports' = {r \in reports : r.created_at = now}
                 /\ purged'.deleted = Cardinality({r \in reports : r.created_at < now})
        /\ clear_old_reports(1000000)
              => reports' = reports /\ purged'.deleted = 0 ]_vars

\* clear_old_reports(0) has deleted a report and left one of its own second.
C10_Witness ==
    /\ purged.days = 0 /\ purged.deleted >= 1
    /\ reports /= {}
    /\ \A r \in reports : r.created_at = now

\* The three settings that sync_reports needs are there.
Configured ==
    /\ agent.api_key /= None /\ agent.developer_id /= None
    /\ agent.pm_dashboard_url /= None

\* C11: a sync_reports that ended with the API key, the developer id or the
\* collector URL absent has failed with a not-configured error, has not read
\* the queue and has pushed nothing.
C11_NotConfiguredFailsFast ==
    (sync.pc = "done" /\ ~Configured)
    => /\ sync.out \in {"not_registered", "api_key_not_set", "developer_id_not_set"}
       /\ ~sync.read
       /\ sync.pushed = <<>>

\* The ids of the first n entries of a list of reports.
IdsOf(l, n) == [k \in 1..n |-> l[k].id]

\* C12: within one sync_reports the entries of the list read are pushed one
\* at a time in ascending id order, each at most once; when the answer of a
\* push is there, the entry is marked exactly if the answer is a success
\* (the store taking the update), a failed push leaves the queue as it is,
\* and either way the loop goes on with the next entry.
C12_SyncPushesInOrderMarksOnSuccess ==
    /\ [](/\ \A k, l \in 1..Len(sync.unsynced) :
                k < l => sync.unsynced[k].id < sync.unsynced[l].id
          /\ sync.pc = "wait" => sync.pushed = IdsOf(sync.unsynced, sync.i)
          /\ sync.pc = "loop" => sync.pushed = IdsOf(sync.unsynced, sync.i - 1)
          /\ (sync.pc = "done" /\ sync.out = "ok")
                => sync.pushed = IdsOf(sync.unsynced, Len(sync.unsynced)))
    /\ [][ (sync.pc = "wait" /\ sync.res /= 0 /\ sync'.pc /= "wait")
           => LET id == sync.unsynced[sync.i].id
              IN /\ sync'.pc = "loop" /\ sync'.i = sync.i + 1
                 /\ IF sync.res /= -1 /\ is_success(sync.res)
                    THEN SyncRecv(TRUE)
                            => /\ \A r \in activity_reports' : r.id = id => r.synced
                               /\ \A r \in activity_reports :
                                     r.id /= id => r \in activity_reports'
                    ELSE activity_reports' = activity_reports ]_vars

\* A sync_reports has ended that pushed two or more entries: an earlier one
\* failed and is pending, a later one succeeded and is delivered.
C12_Witness ==
    /\ sync.pc = "done" /\ sync.out = "ok" /\ Len(sync.pushed) >= 2
    /\ \E k, l \in 1..Len(sync.pushed) :
          /\ k < l
          /\ \E r \in activity_reports : r.id = sync.pushed[k] /\ ~r.synced
          /\ \E r \in activity_reports : r.id = sync.pushed[l] /\ r.synced
          /\ sync.pushed[l] \in acked

\* C13: with the credentials set, sync_reports invoked again and again and
\* its pushes answered with success in the end, every stored observation is
\* eventually delivered and the endpoint has acknowledged (stored) it.
C13_EveryObservationDelivered ==
    \A id \in 1..MaxObs :
        []((/\ agent.is_registered /\ agent.api_key /= None
            /\ agent.developer_id /= None
            /\ \E r \in activity_reports : r.id = id)
           => <>(/\ \E r \in activity_reports : r.id = id /\ r.synced
                 /\ id \in acked))

\* C14: a capture_and_analyze that has returned Ok has its observation in
\* the queue under the id it returns.
C14_CaptureOkIsStored ==
    (cap.pc = "idle" /\ cap.out = "ok")
    => /\ cap.id /= 0
       /\ \E r \in activity_reports : r.id = cap.id

\* C15: an error response has a non-2xx status: 401 for a bad key, 4xx for
\* a report body that is not valid JSON of the schema, 404 for an unknown
\* route; and a 2xx answer on the report route means a report was stored.
C15_ErrorsAreNot2xx ==
    /\ last_resp.body = "invalid_api_key" => last_resp.status = 401
    /\ last_resp.body = "invalid_json" => last_resp.status \in 400..499
    /\ last_resp.body = "not_found" => last_resp.status = 404
    /\ (last_resp.body \in {"success", "invalid_json"} /\ last_resp.status \in 200..299)
          => \E r \in reports : r.id = last_resp.id

\* C16: when Server::http of a start_server could not bind the port, the
\* command has not returned "Server started" and the flag is not set.
C16_BindFailureIsReported ==
    pm.bind = "failed" => (pm.start_out /= "started" /\ ~pm.server_running)

\* C17: once the flag is cleared a loop that is alive can go on to its exit
\* by itself, without a further request arriving.
C17_StopQuitsWithoutRequest ==
    (~pm.server_running /\ srv.pc /= "idle")
    => ENABLED (ServerTake(MaxPushes) \/ ServerStep(TRUE))

\* C18: a request that is not OPTIONS, whose path is not exactly /health and
\* whose key is not the server's (or absent) is answered 401.
C18_BadKeyIs401OffHealth ==
    [][ (/\ TakeStep
         /\ Head(incoming).method /= "OPTIONS"
         /\ Head(incoming).url /= "/health"
         /\ Head(incoming).key /= srv.api_key)
        => last_resp'.status = 401 ]_vars

\* C19: every request taken off the listener gets a response, and every
\* response carries the Access-Control-Allow headers.
C19_EveryRequestAnsweredWithCors ==
    /\ last_resp.body /= None => last_resp.status /= 0
    /\ last_resp.status /= 0 => last_resp.cors

IdsIn(reps) == {r.id : r \in reps}

\* C20: the insert of an accepted push adds exactly one row to reports and
\* the success response carries that row's id; rows appear only so, a row
\* that is there never changes, and rows go only in clear_old_reports.
C20_ReportCreatedOnceImmutable ==
    [][ /\ (srv.pc = "report_insert" /\ srv'.pc /= "report_insert")
           => \E r \in reports' :
                 /\ r.id \notin IdsIn(reports)
                 /\ reports' = reports \cup {r}
                 /\ r.developer_id = report_dev_id(srv.req.body)
                 /\ last_resp'.status = 200 /\ last_resp'.body = "success"
                 /\ last_resp'.id = r.id
        /\ (IdsIn(reports') \ IdsIn(reports) /= {}) => srv.pc = "report_insert"
        /\ \A r \in reports' : r.id \in IdsIn(reports) => r \in reports
        /\ (\E r \in reports : r \notin reports')
              => \E days \in DaysArgs \cup {-1} : clear_old_reports(days) ]_vars

\* Two pushes were accepted and answered with the ids of their rows, and a
\* clear_old_reports has deleted the first row and left the second.
C20_Witness ==
    /\ report_seq = 2 /\ IdsIn(reports) = {2}
    /\ purged.deleted = 1
    /\ last_resp.body = "success" /\ last_resp.id = 2

(***************************************************************************)
(* A long queue: the agent, registered, starts with a table of up to       *)
(* MaxRows rows saved earlier, some of them delivered, and runs            *)
(* sync_reports against an endpoint that accepts every push.               *)
(***************************************************************************)
QueueTable(n, delivered) ==
    {[id |-> k, description |-> k, synced |-> (k \in delivered)] : k \in 1..n}

QueueTables ==
    {QueueTable(n, delivered) :
        n \in (UnsyncedLimit - 1)..MaxRows,
        delivered \in SUBSET {1, UnsyncedLimit}}

InitQueue ==
    /\ agent = AgentConfig(TRUE, "K1", "d1", OtherUrl)
    /\ activity_reports \in QueueTables
    /\ agent_seq = Cardinality(activity_reports)
    /\ cap = CapIdle /\ sync = SyncIdle /\ stored = <<>> /\ dups = {}
    /\ acked = {r.id : r \in {q \in activity_reports : q.synced}}
    /\ InitCollector

NextQueue ==
    \/ SyncStart(TRUE)
    \/ SyncSend
    \/ OtherRespond("sync", 200)
    \/ SyncRecv(TRUE)
    \/ SyncReturn

SpecQueue == InitQueue /\ [][NextQueue]_vars

(***************************************************************************)
(* Purges of a filled store: the collector holds up to MaxPushes + 1       *)
(* reports of one developer, stamped at seconds up to MaxClock in the      *)
(* order of their ids, and clear_old_reports runs at some later second.    *)
(***************************************************************************)
StoredReports(stamps) ==
    {[id |-> k, developer_id |-> "d1", description |-> k,
      created_at |-> stamps[k]] : k \in 1..Len(stamps)}

StampLists ==
    {st \in UNION {[1..n -> 0..MaxClock] : n \in 1..(MaxPushes + 1)} :
        \A i, j \in 1..Len(st) : i < j => st[i] <= st[j]}

InitPurge ==
    /\ InitAgent({Unconfigured})
    /\ pm = NewPm
    /\ config = NoConfig /\ side_loops = {} /\ key_seq = 1 /\ tz = 0
    /\ \E st \in StampLists :
          /\ reports = StoredReports(st)
          /\ report_seq = Len(st)
          /\ developers = upsert_developer({}, "d1", "n1", None, st[Len(st)])
          /\ now \in st[Len(st)]..MaxClock
    /\ srv = SrvIdle /\ incoming = <<>> /\ last_resp = NoResp
    /\ stats = NoStats /\ purged = NoPurge
    /\ overlap = {}

NextPurge == \E days \in DaysArgs \cup {-1} : clear_old_reports(days)

SpecPurge == InitPurge /\ [][NextPurge]_vars

(***************************************************************************)
(* The operator's commands beside the server: starts and stops, changes of *)
(* the port, rotations of the key and new initializations, while clients   *)
(* push with the first and the second key; the store may refuse an INSERT. *)
(***************************************************************************)
CtlPeerRequests ==
    {PeerReport(generate_key(1), "d1", "n1", "x"),
     PeerReport(generate_key(2), "d2", "n2", "y"),
     PeerPlain("POST", "/api/report", generate_key(1)),
     PeerPlain("GET", "/nope", generate_key(1))}

NextCtl ==
    \/ \E portFree \in BOOLEAN : start_server(portFree)
    \/ stop_server
    \/ initialize_pm
    \/ \E port \in Ports : update_config(port)
    \/ generate_api_key
    \/ \E req \in CtlPeerRequests : PeerSend(req)
    \/ ServerTake(MaxPushes)
    \/ \E dbOk \in BOOLEAN : ServerStep(dbOk)

SpecCtl == InitPm /\ [][NextCtl]_vars

(***************************************************************************)
(* get_stats on a filled store, on hosts whose local time is ahead of UTC  *)
(* or behind it by less than a day.                                        *)
(***************************************************************************)
TzOffsets == (1 - DayLen)..(DayLen - 1)

InitStats ==
    /\ InitAgent({Unconfigured})
    /\ pm = NewPm
    /\ config = NoConfig /\ side_loops = {} /\ key_seq = 1
    /\ tz \in TzOffsets
    /\ \E st \in StampLists :
          /\ reports = StoredReports(st)
          /\ report_seq = Len(st)
          /\ developers = upsert_developer({}, "d1", "n1", None, st[Len(st)])
          /\ now \in st[Len(st)]..MaxClock
    /\ srv = SrvIdle /\ incoming = <<>> /\ last_resp = NoResp
    /\ stats = NoStats /\ purged = NoPurge
    /\ overlap = {}

NextStats == get_stats \/ get_stats_next

SpecStats == InitStats /\ [][NextStats]_vars

(***************************************************************************)
(* Report pushes with bodies of every kind: a report, no JSON, a document  *)
(* that the size cap cuts in two, and a report followed past the cap by    *)
(* bytes that make the text no JSON.                                       *)
(***************************************************************************)
PeerLong(req, json, over) ==
    [req EXCEPT !.body.json = json, !.body.over = over]

BodyPeerRequests ==
    {PeerReport(generate_key(1), "d1", "n1", "x"),
     PeerPlain("POST", "/api/report", generate_key(1)),
     PeerLong(PeerReport(generate_key(1), "d2", "n2", "y"), FALSE, "rest"),
     PeerLong(PeerReport(generate_key(1), "d2", "n2", "y"), TRUE, "junk")}

NextBody ==
    \/ start_server(TRUE)
    \/ \E req \in BodyPeerRequests : PeerSend(req)
    \/ ServerTake(MaxPushes)
    \/ ServerStep(TRUE)

SpecBody == InitPm /\ [][NextBody]_vars

(***************************************************************************)
(* C21.  The agent's queue only grows and only delivers: every row of      *)
(* activity_reports stays in the table with its id and its description, a  *)
(* row that is synced stays synced, and no two rows share an id.  The only *)
(* statements on the table are the INSERT of save_report and the UPDATE of *)
(* mark_report_synced.                                                     *)
(***************************************************************************)
C21_QueueOnlyGrowsAndDelivers ==
    [][ /\ \A r \in activity_reports :
              \E q \in activity_reports' :
                 /\ q.id = r.id /\ q.description = r.description
                 /\ (r.synced => q.synced)
        /\ \A q1, q2 \in activity_reports' : q1.id = q2.id => q1 = q2 ]_vars

\* All rows saved, a later one delivered while an earlier one is pending.
C21_Witness ==
    /\ Cardinality(activity_reports) = MaxObs
    /\ \E r, q \in activity_reports : r.synced /\ ~q.synced /\ q.id < r.id

(***************************************************************************)
(* C22.  Order at the endpoint: of two rows of one agent that both have    *)
(* reports at the endpoint, the one with the smaller id had its first      *)
(* report created first.                                                   *)
(***************************************************************************)
C22_FirstReportsInIdOrder ==
    \A i, j \in 1..Len(stored) : i < j => stored[i] < stored[j]

(***************************************************************************)
(* C23.  get_unsynced_reports returns at most 50 rows, and of more than 50 *)
(* pending rows exactly the 50 with the lowest ids: every row of the list  *)
(* is pending, and every pending row left out has a greater id than every  *)
(* row of the list.  The list sync_reports works on is that list.          *)
(***************************************************************************)
C23_ListPendingLowestFifty ==
    LET l == get_unsynced_reports(activity_reports, TRUE)
        P == Pending(activity_reports)
        inList == {l[k] : k \in 1..Len(l)}
    IN /\ Len(l) <= UnsyncedLimit
       /\ Len(sync.unsynced) <= UnsyncedLimit
       /\ Cardinality(P) > UnsyncedLimit =>
             /\ Len(l) = UnsyncedLimit
             /\ Cardinality(inList) = UnsyncedLimit
             /\ inList \subseteq P
             /\ \A r \in P \ inList : \A q \in inList : q.id < r.id

\* sync_reports has read 50 of more than 50 pending rows, past a delivered one.
C23_Witness ==
    /\ sync.pc = "loop" /\ sync.i = 1
    /\ Len(sync.unsynced) = UnsyncedLimit
    /\ Cardinality(Pending(activity_reports)) > UnsyncedLimit
    /\ \E r \in activity_reports : r.synced /\ r.id < sync.unsynced[UnsyncedLimit].id

(***************************************************************************)
(* C24.  clear_old_reports(days) deletes exactly the reports stamped       *)
(* before now - days (days of None: retention_days), returns their number, *)
(* keeps every other report as it is and the developers table unchanged;   *)
(* a call that finds no such report returns 0 and changes no table.        *)
(***************************************************************************)
C24_PurgeDeletesExactlyOlder ==
    [][ \A days \in DaysArgs \cup {-1} :
          clear_old_reports(days) =>
            LET d == IF days = -1 THEN pm.retention_days ELSE days
                old == {r \in reports : r.created_at < now - d * DayLen}
            IN /\ reports' = reports \ old
               /\ purged'.deleted = Cardinality(old)
               /\ developers' = developers
               /\ report_seq' = report_seq
               /\ old = {} => reports' = reports /\ purged'.deleted = 0 ]_vars

\* A purge of one day that found nothing to delete after an earlier purge
\* deleted a report: a report stamped exactly one day before is still there.
C24_Witness ==
    /\ purged.days = 1 /\ purged.deleted = 0
    /\ Cardinality(reports) < report_seq
    /\ \E r \in reports : r.created_at = now - DayLen
    /\ developers /= {}

(***************************************************************************)
(* C25.  No failed request ends the serving loop.  While the loop's flag   *)
(* is true the loop stays alive over every step; each request it takes is  *)
(* answered at once or is handled and answered in the following steps,     *)
(* whatever the answer (401, invalid JSON, not found, a refused INSERT);    *)
(* and after each answer the loop is ready for the next request waiting.   *)
(***************************************************************************)
C25_FailureKeepsLoopServing ==
    /\ [][ /\ (srv.pc /= "idle" /\ loop_running) => srv'.pc /= "idle"
           /\ TakeStep =>
                 \/ srv'.pc \in {"report_insert", "stats"}
                 \/ /\ srv'.pc = "listening"
                    /\ last_resp'.status /= 0
                    /\ last_resp'.body \in
                          {"empty", "ok", "developers"} \cup ErrorBodies
           /\ (srv.pc \in {"report_insert", "stats"} /\ srv'.pc /= srv.pc) =>
                 /\ srv'.pc = "listening"
                 /\ last_resp'.status /= 0
                 /\ last_resp'.body \in {"success", "db_error", "stats"} ]_vars
    /\ []( /\ ( /\ srv.pc = "listening" /\ loop_running /\ incoming /= <<>>
                /\ will_accept(Head(incoming), srv.api_key)
                       => report_seq < MaxPushes )
                => ENABLED ServerTake(MaxPushes)
           /\ srv.pc \in {"report_insert", "stats"} => ENABLED ServerStep(TRUE) )

\* After the answer to a push whose INSERT the store refused, the loop has
\* taken the next push and is handling it.
C25_Witness ==
    /\ last_resp.body = "db_error"
    /\ srv.pc = "report_insert" /\ loop_running

(***************************************************************************)
(* C26.  At most one thread of run_http_server is alive, whatever the      *)
(* order of start_server, stop_server, update_config and initialize_pm.    *)
(***************************************************************************)
C26_AtMostOneLoop ==
    Cardinality(side_loops) + (IF srv.pc /= "idle" THEN 1 ELSE 0) <= 1

(***************************************************************************)
(* C27.  The flag agrees with the server: while server_running is true a   *)
(* thread of run_http_server is alive, and while it is false no request    *)
(* is taken off the listener and handled against the store.                *)
(***************************************************************************)
C27_FlagAgreesWithServer ==
    /\ [](pm.server_running => (srv.pc /= "idle" \/ side_loops /= {}))
    /\ [][ ( /\ ~pm.server_running
             /\ srv.pc = "listening" /\ incoming /= <<>>
             /\ incoming' = Tail(incoming) )
           => /\ developers' = developers
              /\ srv'.pc \notin {"report_insert", "stats"}
              /\ last_resp'.body \notin {"developers"} ]_vars

(***************************************************************************)
(* C28.  While the server runs, a request off the health path is let past  *)
(* the key check exactly when its X-API-Key is the collector's current     *)
(* api_key: after generate_api_key the old key is answered 401 and the new *)
(* one is let past.                                                        *)
(***************************************************************************)
C28_OnlyCurrentKeyAccepted ==
    [][ ( /\ TakeStep /\ pm.server_running
          /\ Head(incoming).method /= "OPTIONS"
          /\ ~url_contains_health(Head(incoming).url) )
        => ( (last_resp'.body = "invalid_api_key" /\ srv'.pc = "listening")
             <=> Head(incoming).key /= pm.api_key ) ]_vars

(***************************************************************************)
(* C29.  A new initialization yields the api_key the collector had before  *)
(* it: the key of the first initialization, or the one rotated to since.   *)
(***************************************************************************)
C29_InitKeepsSecret ==
    [][ initialize_pm => pm'.api_key = pm.api_key ]_vars

(***************************************************************************)
(* C30.  reports_today of a finished get_stats is the number of reports    *)
(* that were received on the host's local calendar day of the call, for    *)
(* every offset of the local clock from UTC.                               *)
(***************************************************************************)
C30_ReportsTodayIsLocalDay ==
    stats.pc = 4 =>
        stats.reports_today =
            Cardinality({r \in reports : local_date(r.created_at) = local_date(now)})

(***************************************************************************)
(* C31.  When sync_reports returns its counts, synced_count + failed_count *)
(* is the length of the list it read, and synced_count is the number of    *)
(* rows of that list that are now synced (they were pending when read), so *)
(* a push whose mark_report_synced failed is among the failed ones.        *)
(***************************************************************************)
C31_SyncCountsMatchQueue ==
    [][ SyncReturn =>
          LET l == sync.unsynced
              marked == {k \in 1..Len(l) :
                            \E r \in activity_reports : r.id = l[k].id /\ r.synced}
          IN /\ sync.synced_count + sync.failed_count = Len(l)
             /\ sync.synced_count = Cardinality(marked) ]_vars

(***************************************************************************)
(* C32.  The agent sees the answer of every push the endpoint accepts      *)
(* (an accepted push is answered 2xx and the handler gets that answer), so *)
(* no row gets a second report, also with sync_reports and                 *)
(* capture_and_analyze in progress together.                               *)
(***************************************************************************)
C32_OneReportPerObservation == dups = {}

(***************************************************************************)
(* C33.  When the loop accepts a report push, the developers row of the    *)
(* push's identity is online and its last_seen_at is the time of the push; *)
(* and in every state every developers row is online, so the online count *)
(* is the total count.                                                     *)
(***************************************************************************)
C33_AcceptedDeveloperSeenNow ==
    /\ [](Cardinality({d \in developers : d.is_online}) = Cardinality(developers))
    /\ [][ AcceptStep =>
             \E d \in developers' :
                /\ d.id = report_dev_id(Head(incoming).body)
                /\ d.is_online /\ d.last_seen_at = now ]_vars

(***************************************************************************)
(* C34.  Report ids are never reused.  report_seq is the highest id ever   *)
(* assigned: it never decreases, no row has a greater id, and every row    *)
(* that comes into the table gets an id greater than it, also after        *)
(* clear_old_reports has deleted the rows with the highest ids.            *)
(***************************************************************************)
C34_ReportIdsNeverReused ==
    /\ [](\A r \in reports : r.id <= report_seq)
    /\ [][ /\ report_seq' >= report_seq
           /\ \A r \in reports' :
                 r.id \notin IdsIn(reports) =>
                    r.id > report_seq /\ report_seq' = r.id ]_vars

\* clear_old_reports deleted the report with id 1 when that was the highest
\* id, and the report created after it got id 2.
C34_Witness ==
    /\ purged.deleted >= 1 /\ purged.seq = 1
    /\ IdsIn(reports) = {2}
    /\ last_resp.body = "success" /\ last_resp.id = 2

(***************************************************************************)
(* C35.  A report push whose body is not a JSON document of the report     *)
(* schema, or reaches past the size cap, is answered with the parse error  *)
(* and touches no table: the developers table is unchanged and no insert   *)
(* into reports follows.                                                   *)
(***************************************************************************)
C35_InvalidJsonTouchesNoStore ==
    [][ ( /\ TakeStep
          /\ Head(incoming).method /= "OPTIONS"
          /\ authorized(Head(incoming).key, srv.api_key, Head(incoming).url)
          /\ route(Head(incoming).method, Head(incoming).url) = "report"
          /\ \/ ~parse_report_ok(Head(incoming).body)
             \/ Head(incoming).body.over /= None )
        => /\ developers' = developers
           /\ srv'.pc = "listening"
           /\ last_resp'.body = "invalid_json" ]_vars

====
